---- MODULE Spec2Model ----
(***************************************************************************)
(* A model of the mcp-client session (src/src/client.ts, class MCPClient), *)
(* its configuration validation (src/src/utils.ts) and the command-line    *)
(* actions that drive one session per run (src/src/index.ts).              *)
(*                                                                         *)
(* Strings are sequences of one-character (or longer, for fixed message    *)
(* fragments) strings, so that emptiness, trimming, URL parsing and        *)
(* "contains" are computed and not assumed.                                *)
(***************************************************************************)
EXTENDS Integers, Sequences, FiniteSets, TLC

\* ------------------------------------------------------------------ bounds
MaxUrlLen == 2
MaxCmdLen == 2
MaxTransports == 2

\* ------------------------------------------------------------- strings
UrlChars == {"a", ":", "/"}
CmdChars == {"a", " "}

StringsOver(chars, n) == UNION {[1..k -> chars] : k \in 0..n}

\* An optional string field of MCPClientOptions: undefined, or a string.
Undefined == [present |-> FALSE, s |-> <<>>]
Str(s) == [present |-> TRUE, s |-> s]
OptStrings(chars, n) == {Undefined} \cup {Str(s) : s \in StringsOver(chars, n)}

\* JavaScript truthiness of an optional string: undefined and '' are falsy.
Truthy(v) == v.present /\ Len(v.s) > 0

\* String.prototype.trim() on a command line: strip leading/trailing blanks.
RECURSIVE TrimLeft(_)
TrimLeft(s) == IF s # <<>> /\ Head(s) = " " THEN TrimLeft(Tail(s)) ELSE s
RECURSIVE TrimRight(_)
TrimRight(s) ==
    IF s # <<>> /\ s[Len(s)] = " " THEN TrimRight(SubSeq(s, 1, Len(s) - 1)) ELSE s
Trim(s) == TrimRight(TrimLeft(s))

\* s contains t as a contiguous substring.
Contains(s, t) ==
    \E i \in 0..(Len(s) - Len(t)) : SubSeq(s, i + 1, i + Len(t)) = t

\* ---------------------------------------------------------------- utils.ts
TransportTypes == {"local", "http", "https", "sse", "test"}
\* The kinds a caller may pass: the recognised ones and an unrecognised one.
AnyTypes == TransportTypes \cup {"tcp"}

\* An isValidTransport() that knows the four kinds of the command line only.
isValidTransportNoTest(t) == t \in {"local", "http", "https", "sse"}

\* isValidTransport(): the four kinds of the command line and the test kind.
isValidTransport(t) == t \in {"local", "http", "https", "sse", "test"}

\* new URL(url) without a base succeeds exactly when url starts with a scheme:
\* an ASCII letter, then letters (digits, +, -, . are not in UrlChars), then ':'.
\* No scheme over UrlChars is a special one (http, https, ...), so whatever
\* follows the colon parses (opaque path, or an authority that may be empty).
IsSchemeChar(c) == c = "a"
validateUrl(u) ==
    \E i \in 2..Len(u) :
        /\ u[i] = ":"
        /\ \A j \in 1..(i - 1) : IsSchemeChar(u[j])

\* --------------------------------------------------------------- errors
\* A thrown Error: its message and the string `code` attached to it, if any.
Err(code, message) == [code |-> code, message |-> message]
NoCode == "none"
NoError == Err("ok", <<>>)
NotConnectedError == Err(NoCode, <<"Not connected to server">>)

\* ------------------------------------------------------------- client.ts
\* The configurations validation is explored with: every kind, url and command
\* within the bounds (validation looks at nothing else).
Configs ==
    [type : AnyTypes,
     url : OptStrings(UrlChars, MaxUrlLen),
     cmd : OptStrings(CmdChars, MaxCmdLen),
     transport : BOOLEAN,
     bearerToken : {Undefined}]

NoOptions ==
    [type |-> "none", url |-> Undefined, cmd |-> Undefined, transport |-> FALSE,
     bearerToken |-> Undefined]

\* The configurations the session behaviour is explored with: one accepted
\* configuration per transport kind (with and without a supplied transport for
\* the test kind), a local one whose command is blank, rejected ones, and the
\* http and https ones again with a bearer token.
Cfg(type, url, cmd, tr) ==
    [type |-> type, url |-> url, cmd |-> cmd, transport |-> tr, bearerToken |-> Undefined]
\* The same configuration with a bearer token.
WithBearer(o) == [o EXCEPT !.bearerToken = Str(<<"t">>)]
SessionConfigs ==
    {Cfg("local", Undefined, Str(<<"a">>), FALSE),
     Cfg("local", Undefined, Str(<<" ">>), FALSE),
     Cfg("local", Undefined, Str(<<"a">>), TRUE),
     Cfg("http", Str(<<"a", ":">>), Undefined, FALSE),
     Cfg("https", Str(<<"a", ":">>), Undefined, FALSE),
     Cfg("sse", Str(<<"a", ":">>), Undefined, FALSE),
     Cfg("test", Undefined, Undefined, TRUE),
     Cfg("test", Undefined, Undefined, FALSE),
     Cfg("tcp", Undefined, Undefined, FALSE),
     Cfg("http", Undefined, Undefined, FALSE),
     Cfg("local", Undefined, Str(<<>>), FALSE),
     Cfg("https", Str(<<"a">>), Undefined, FALSE),
     WithBearer(Cfg("http", Str(<<"a", ":">>), Undefined, FALSE)),
     WithBearer(Cfg("https", Str(<<"a", ":">>), Undefined, FALSE))}

\* validateOptions() with the URL syntax rule tried before the command rule.
validateOptionsUrlFirst(o) ==
    IF ~isValidTransport(o.type)
    THEN Err(NoCode, <<"Invalid transport type: ", o.type>>)
    ELSE IF o.type \in {"http", "https", "sse"} /\ ~Truthy(o.url)
    THEN Err(NoCode, <<"URL is required for ", o.type, " transport">>)
    ELSE IF Truthy(o.url) /\ ~validateUrl(o.url.s)
    THEN Err(NoCode, <<"Invalid URL: ">> \o o.url.s)
    ELSE IF o.type = "local" /\ ~Truthy(o.cmd)
    THEN Err(NoCode, <<"Command is required for local transport">>)
    ELSE NoError

\* validateOptions(): the first failing rule throws; NoError when none fails.
validateOptions(o) ==
    IF ~isValidTransport(o.type)
    THEN Err(NoCode, <<"Invalid transport type: ", o.type>>)
    ELSE IF o.type \in {"http", "https", "sse"} /\ ~Truthy(o.url)
    THEN Err(NoCode, <<"URL is required for ", o.type, " transport">>)
    ELSE IF o.type = "local" /\ ~Truthy(o.cmd)
    THEN Err(NoCode, <<"Command is required for local transport">>)
    ELSE IF Truthy(o.url) /\ ~validateUrl(o.url.s)
    THEN Err(NoCode, <<"Invalid URL: ">> \o o.url.s)
    ELSE NoError

\* ------------------------------------------------------- session state
VARIABLES
    mode,           \* "api": the methods are called in any order, as the tests do;
                    \* "cli": the command-line actions of index.ts drive the session
                    \* "config": the constructor and connect(), any configuration
                    \* "async": the methods are called while a disconnect()
                    \* is suspended at `await this.transport.close()`
    sess,           \* "none" | "live" | "threw": outcome of `new MCPClient(options)`
    options,        \* MCPClient.options
    ctorError,      \* the error the constructor threw (NoError when it returned)
    transport,      \* MCPClient.transport: NoTransport (null) or a transport id
    client,         \* MCPClient.client: NoClient (null) or the SDK Client
    open,           \* ids of the transports whose channel is open (process, socket)
    nextId,         \* number of transports created so far by the session
    outbound,       \* the Authorization header value of every request the session's
                    \* transports have sent (NoHeader for a request without one)
    last,           \* the last method call on the session and what it did
    asked,          \* when the last call was a listTools()/callTool(): the tool
                    \* asked for and what the request met (the server's response
                    \* or the SDK's failure); NoAsk after any other call
    attempt,        \* when the last call was a connect(): how the SDK's connect
                    \* went, the cause of its failure, and the command and
                    \* arguments of the child process the transport was created
                    \* for (local only); NoAttempt after any other call
    tries,          \* the number of connection attempts / requests the last call made
    life,           \* history: "unconnected", then "connected" once a connect()
                    \* returned, then "closed" once a disconnect() returned
    pc,             \* cli: position in the command action; async: "closing"
                    \* while a disconnect() is suspended at its await
    command,        \* cli: "inspect" | "tool"
    exitCode,       \* cli: argument of process.exit, NotExited while running
    reported,       \* cli: the error handleError printed (NoError when none)
    printed,        \* cli: whether the success output was printed
    opResult,       \* cli: "none" | "ok" | "failed": outcome of listTools/callTool
    opError,        \* cli: the error listTools/callTool threw
    closeAttempted, \* cli: whether the action called disconnect()
    issued,         \* cli: how many times the action has called the constructor,
                    \* connect() and the requested operation
    teardown        \* when the last call was a close, its steps in order:
                    \* "disconnectHttpSession" when that method was called, the
                    \* DELETE request and how it went, and "disconnect"

sessVars ==
    <<sess, options, ctorError, transport, client, open, nextId, outbound, last, asked,
      attempt, tries, life>>
cliVars ==
    <<pc, command, exitCode, reported, printed, opResult, opError, closeAttempted, issued>>
vars == <<mode, sessVars, cliVars, teardown>>

NoTransport == 0 - 1
\* The transport supplied in options.transport (tests only) is one fixed object.
InMemoryId == 0
TransportIds == {InMemoryId} \cup 1..MaxTransports

\* The SDK Client: the transport it was created for and whether its handshake
\* completed (only then does the SDK send requests).
NoClient == [held |-> FALSE, t |-> NoTransport, ready |-> FALSE]
NewClient(t, ready) == [held |-> TRUE, t |-> t, ready |-> ready]

Call(op, err, closedT, sent, ret) ==
    [op |-> op, err |-> err, closedT |-> closedT, sent |-> sent, ret |-> ret]
NoCall == Call("none", NoError, FALSE, FALSE, <<>>)

\* ---------------------------------------------------------- constructor
\* A constructor that already creates the transport of an accepted configuration.
ConstructEager(o) ==
    /\ sess = "none"
    /\ options' = o
    /\ ctorError' = validateOptions(o)
    /\ sess' = IF validateOptions(o) = NoError THEN "live" ELSE "threw"
    /\ transport' = IF validateOptions(o) = NoError THEN nextId + 1 ELSE transport
    /\ nextId' = IF validateOptions(o) = NoError THEN nextId + 1 ELSE nextId
    /\ UNCHANGED <<client, open, outbound, last, asked, attempt, tries, life>>

\* constructor(options): store the options, validate, nothing else.
Construct(o) ==
    /\ sess = "none"
    /\ options' = o
    /\ ctorError' = validateOptions(o)
    /\ sess' = IF validateOptions(o) = NoError THEN "live" ELSE "threw"
    /\ UNCHANGED <<transport, client, open, nextId, outbound, last, asked, attempt, tries, life>>

\* -------------------------------------------------------------- connect
\* What `await this.client.connect(this.transport)` can do: open the channel and
\* complete the handshake; fail to open the channel; or open it and fail the
\* handshake, the SDK then having released the channel or not.
ConnectOutcomes == {"ok", "start_fail", "handshake_fail", "handshake_fail_released"}
\* Messages of the underlying failure.
ConnectCauses == {<<"spawn ENOENT">>, <<"HTTP 404: ", "Not Found">>}

\* A connect() that rethrows the cause as it is.
ConnectFailedUnwrapped(cause) == Err(NoCode, cause)

\* A connect() that marks its error the way listTools() does.
ConnectFailedCoded(cause) == Err("SERVER_ERROR", <<"Failed to connect: ">> \o cause)

\* connect() catch block: `throw new Error(`Failed to connect: ${errorMessage}`)`.
ConnectFailed(cause) == Err(NoCode, <<"Failed to connect: ">> \o cause)

\* The ways one connect() call can go, given the options: <<outcome, cause>>.
ConnectAttempts ==
    IF options.transport \/ options.type \in {"local", "http", "https", "sse"}
    THEN {<<"ok", <<>> >>} \cup ((ConnectOutcomes \ {"ok"}) \X ConnectCauses)
    ELSE {<<"start_fail", <<"Unsupported transport: ", options.type>> >>}

\* The Authorization header of the requests a transport of the session sends.
\* Every transport is created from the command or the URL alone: no request
\* options and no headers are passed, and options.bearerToken is not read.
NoHeader == <<>>
Authorization(o) == NoHeader

\* --------------------------------------------- what the SDK and the server answer
\* A failure thrown by the SDK: a numeric JSON-RPC code (NoNumCode when it has
\* none), a string code (NoCode when it has none) and a message ('' when none).
NoNumCode == 0
MethodNotFound == 0 - 32601
InvalidParams == 0 - 32602
Raw(num, str, message) == [num |-> num, str |-> str, message |-> message]

\* The SDK refuses a request on a client whose handshake did not complete or
\* whose channel is no longer open.
SdkNotConnected == Raw(NoNumCode, NoCode, <<"Not connected">>)
ClientLive == client.held /\ client.ready /\ client.t \in open
\* What the server (or the SDK, for a client that is not live) can answer.
Answers(responses) == IF ClientLive THEN responses ELSE {CHOOSE r \in responses : TRUE}

\* The message texts a failure or an in-band error can carry: none, a plain
\* one, and ones that hit the text rules in the letter case the code tests for,
\* in both at once, or in another letter case.
Messages ==
    {<<>>, <<"boom">>, <<"Tool ", "not found">>, <<"Invalid parameters", ": x">>,
     <<"Invalid parameters", ", ", "not found">>, <<"Not Found">>,
     <<"invalid parameters">>}

InternalError == 0 - 32603
NumCodes == {MethodNotFound, InvalidParams, InternalError}
\* String codes of runtime errors that are not this program's own.
StrCodes == {"ECONNRESET"}

\* What a request can throw: error.code is a number, a string, or absent.
RawFailures ==
    {Raw(n, NoCode, m) : n \in NumCodes \cup {NoNumCode}, m \in Messages}
        \cup {Raw(NoNumCode, c, m) : c \in StrCodes, m \in Messages}

ToolNames == {"echo", "missing"}

\* Responses to tools/list: the tools reported (hasTools FALSE: no tools field).
ListResult(hasTools, tools) ==
    [kind |-> "result", hasTools |-> hasTools, tools |-> tools, raw |-> SdkNotConnected]
ListThrow(raw) == [kind |-> "throw", hasTools |-> FALSE, tools |-> <<>>, raw |-> raw]
ListResponses ==
    {ListResult(FALSE, <<>>), ListResult(TRUE, <<>>), ListResult(TRUE, <<"echo", "add", "error">>)}
        \cup {ListThrow(r) : r \in RawFailures}

\* Responses to tools/call: the texts of the content blocks, flagged isError or not.
CallResult(isError, content) ==
    [kind |-> "result", isError |-> isError, content |-> content, raw |-> SdkNotConnected]
CallThrow(raw) == [kind |-> "throw", isError |-> FALSE, content |-> <<>>, raw |-> raw]
CallResponses ==
    {CallResult(FALSE, <<<<"Echo: hi">>>>), CallResult(FALSE, <<<<"Name: x">>, <<"Age: 1">>>>),
     CallResult(TRUE, <<>>)}
        \cup {CallResult(TRUE, <<m>>) : m \in Messages}
        \cup {CallThrow(r) : r \in RawFailures}

\* What the last request met: `got` tells whether the request went out and resp
\* is what came back; without a request resp is not looked at.
Ask(op, tool, got, resp) == [op |-> op, tool |-> tool, got |-> got, resp |-> resp]
NoAsk == Ask("none", "", FALSE, ListResult(FALSE, <<>>))

\* `cmd.split(' ')`: the pieces between single blanks, empty ones included.
RECURSIVE Split(_)
Split(s) ==
    IF s = <<>> THEN << <<>> >>
    ELSE IF Head(s) = " " THEN << <<>> >> \o Split(Tail(s))
    ELSE << <<Head(s)>> \o Split(Tail(s))[1] >> \o Tail(Split(Tail(s)))

\* What one connect() did: the outcome of the SDK's connect ("unsupported" when
\* no transport exists for the kind), the cause of a failure, and for a local
\* transport the command and arguments given to StdioClientTransport.
NoAttempt == [outcome |-> "none", cause |-> <<>>, stdio |-> FALSE, command |-> <<>>, args |-> <<>>]
Attempt(outcome, cause) ==
    IF ~options.transport /\ options.type = "local"
    THEN [outcome |-> outcome, cause |-> cause, stdio |-> TRUE,
          command |-> Split(options.cmd.s)[1], args |-> Tail(Split(options.cmd.s))]
    ELSE [outcome |-> outcome, cause |-> cause, stdio |-> FALSE,
          command |-> <<>>, args |-> <<>>]

\* connectLocal / connectHttp / connectSSE / connectInMemory: the transport and
\* the client are assigned to the session first, then the SDK connects; once the
\* channel is open the SDK sends the initialize request over it.
ConnectVia(t, outcome, cause) ==
    /\ transport' = t
    /\ outbound' = IF outcome = "start_fail" THEN outbound
                   ELSE outbound \cup {Authorization(options)}
    /\ client' = NewClient(t, outcome = "ok")
    /\ open' = IF outcome \in {"ok", "handshake_fail"} THEN open \cup {t}
               ELSE IF outcome = "handshake_fail_released" THEN open \ {t}
               ELSE open
    /\ last' = Call("connect",
                    IF outcome = "ok" THEN NoError ELSE ConnectFailed(cause),
                    FALSE, FALSE, <<>>)
    /\ life' = IF outcome = "ok" THEN "connected" ELSE life
    /\ attempt' = Attempt(outcome, cause)
    /\ tries' = 1
    /\ asked' = NoAsk

\* A connect() that looks at the transport type first and uses the supplied
\* transport only for a type it has no transport for.
ConnectByTypeFirst(outcome, cause) ==
    IF options.type \in {"local", "http", "https", "sse"}
    THEN /\ nextId < MaxTransports
         /\ nextId' = nextId + 1
         /\ ConnectVia(nextId + 1, outcome, cause)
    ELSE IF options.transport
    THEN /\ ConnectVia(InMemoryId, outcome, cause)
         /\ UNCHANGED nextId
    ELSE /\ last' = Call("connect",
                         ConnectFailed(<<"Unsupported transport: ", options.type>>),
                         FALSE, FALSE, <<>>)
         /\ attempt' = Attempt("unsupported", <<"Unsupported transport: ", options.type>>)
         /\ tries' = 0
         /\ asked' = NoAsk
         /\ UNCHANGED <<transport, client, open, nextId, outbound, life>>

\* connect(): the supplied transport if there is one, else by transport type;
\* every failure is rethrown as "Failed to connect: <cause>".
Connect(outcome, cause) ==
    IF options.transport
    THEN /\ ConnectVia(InMemoryId, outcome, cause)
         /\ UNCHANGED nextId
    ELSE IF options.type \in {"local", "http", "https", "sse"}
    THEN /\ nextId < MaxTransports
         /\ nextId' = nextId + 1
         /\ ConnectVia(nextId + 1, outcome, cause)
    ELSE /\ last' = Call("connect",
                         ConnectFailed(<<"Unsupported transport: ", options.type>>),
                         FALSE, FALSE, <<>>)
         /\ attempt' = Attempt("unsupported", <<"Unsupported transport: ", options.type>>)
         /\ tries' = 0
         /\ asked' = NoAsk
         /\ UNCHANGED <<transport, client, open, nextId, outbound, life>>

\* ------------------------------------------------------------ disconnect
CloseOutcomes == {"ok", "throws"}
CloseFailed == Err(NoCode, <<"close failed">>)

\* A disconnect() that returns without closing the transport or dropping the handles.
DisconnectKeepsHandles(outcome) ==
    /\ outcome = "ok"
    /\ last' = Call("disconnect", NoError, transport # NoTransport, FALSE, <<>>)
    /\ life' = "closed"
    /\ asked' = NoAsk /\ attempt' = NoAttempt /\ tries' = 0
    /\ UNCHANGED <<transport, client, open, nextId, outbound>>

\* disconnect(): close the transport if one is held, then drop both handles.
\* A rejection of transport.close() leaves the method before the assignments.
Disconnect(outcome) ==
    /\ asked' = NoAsk /\ attempt' = NoAttempt /\ tries' = 0
    /\ IF transport # NoTransport
       THEN IF outcome = "ok"
            THEN /\ open' = open \ {transport}
                 /\ transport' = NoTransport
                 /\ client' = NoClient
                 /\ last' = Call("disconnect", NoError, TRUE, FALSE, <<>>)
                 /\ life' = "closed"
                 /\ UNCHANGED <<nextId, outbound>>
            ELSE /\ last' = Call("disconnect", CloseFailed, TRUE, FALSE, <<>>)
                 /\ UNCHANGED <<transport, client, open, nextId, outbound, life>>
       ELSE /\ outcome = "ok"
            /\ client' = NoClient
            /\ last' = Call("disconnect", NoError, FALSE, FALSE, <<>>)
            /\ life' = "closed"
            /\ UNCHANGED <<transport, open, nextId, outbound>>

\* What `await fetchFn(url, {method: 'DELETE'})` can do: resolve or reject.
DeleteOutcomes == {"ok", "failed"}

\* A disconnectHttpSession() that sends the DELETE request whatever the kind.
DisconnectHttpSessionAnyKind(del, outcome) ==
    /\ teardown' = <<"disconnectHttpSession", "DELETE " \o del, "disconnect">>
    /\ Disconnect(outcome)

\* disconnectHttpSession(): for http and https with a url, one DELETE request to
\* the url, its failure ignored; then, always, disconnect().
DisconnectHttpSession(del, outcome) ==
    /\ teardown' = <<"disconnectHttpSession">>
                        \o (IF options.type \in {"http", "https"} /\ Truthy(options.url)
                            THEN <<"DELETE " \o del>> ELSE <<>>)
                        \o <<"disconnect">>
    /\ Disconnect(outcome)

\* ------------------------------------------------------------- requests
\* A listTools() catch block that classifies by protocol code like callTool's.
ListToolsErrorByCode(raw) ==
    IF raw.num = MethodNotFound THEN Err("TOOL_NOT_FOUND", raw.message)
    ELSE IF raw.num = InvalidParams THEN Err("INVALID_PARAMS", raw.message)
    ELSE Err("SERVER_ERROR", IF raw.message # <<>> THEN raw.message ELSE <<"Server error">>)

\* listTools() catch block: every failure becomes SERVER_ERROR.
ListToolsError(raw) ==
    Err("SERVER_ERROR", IF raw.message # <<>> THEN raw.message ELSE <<"Server error">>)

\* A result built back to front.
ToolsOfReversed(resp) ==
    IF resp.hasTools
    THEN [i \in 1..Len(resp.tools) |-> resp.tools[Len(resp.tools) + 1 - i]]
    ELSE <<>>

\* `response.tools || []`.
ToolsOf(resp) == IF resp.hasTools THEN resp.tools ELSE <<>>

ToolNotFound(tool) == Err("TOOL_NOT_FOUND", <<"Tool '", tool, "' ", "not found">>)

\* `content?.[0]?.text || 'Unknown error'`.
ErrorText(content) ==
    IF content # <<>> /\ content[1] # <<>> THEN content[1] ELSE <<"Unknown error">>

\* An in-band check without the 'not found' rule.
InBandErrorNoRule(tool, content) == Raw(NoNumCode, "SERVER_ERROR", ErrorText(content))

\* An in-band check that drops the reported text.
InBandErrorNoText(tool, content) ==
    IF \/ Contains(ErrorText(content), <<"not found">>)
       \/ Contains(ErrorText(content), <<"Tool ", "not found">>)
    THEN Raw(NoNumCode, "TOOL_NOT_FOUND", ToolNotFound(tool).message)
    ELSE Raw(NoNumCode, "SERVER_ERROR", <<"Unknown error">>)

\* callTool(): the error thrown inside the try block for a response flagged
\* isError; it carries a string code and reaches the catch block like any other.
InBandError(tool, content) ==
    IF \/ Contains(ErrorText(content), <<"not found">>)
       \/ Contains(ErrorText(content), <<"Tool ", "not found">>)
    THEN Raw(NoNumCode, "TOOL_NOT_FOUND", ToolNotFound(tool).message)
    ELSE Raw(NoNumCode, "SERVER_ERROR", ErrorText(content))

\* A catch block that tries the text rules before the protocol codes.
CallToolErrorTextFirst(tool, raw) ==
    IF raw.str # NoCode THEN Err(raw.str, raw.message)
    ELSE IF Contains(raw.message, <<"not found">>) THEN ToolNotFound(tool)
    ELSE IF Contains(raw.message, <<"Invalid parameters">>)
    THEN Err("INVALID_PARAMS",
             <<"Invalid parameters", " for tool '", tool, "': ">> \o raw.message)
    ELSE IF raw.num = MethodNotFound THEN ToolNotFound(tool)
    ELSE IF raw.num = InvalidParams
    THEN Err("INVALID_PARAMS",
             <<"Invalid parameters", " for tool '", tool, "': ">>
                 \o (IF raw.message # <<>> THEN raw.message ELSE <<"Invalid parameters">>))
    ELSE Err("SERVER_ERROR",
             IF raw.message # <<>> THEN raw.message ELSE <<"Server error">>)

\* A catch block whose text rules are tried in the other order.
CallToolErrorParamsFirst(tool, raw) ==
    IF raw.num = MethodNotFound THEN ToolNotFound(tool)
    ELSE IF raw.num = InvalidParams
    THEN Err("INVALID_PARAMS",
             <<"Invalid parameters", " for tool '", tool, "': ">>
                 \o (IF raw.message # <<>> THEN raw.message ELSE <<"Invalid parameters">>))
    ELSE IF raw.str # NoCode THEN Err(raw.str, raw.message)
    ELSE IF Contains(raw.message, <<"Invalid parameters">>)
    THEN Err("INVALID_PARAMS",
             <<"Invalid parameters", " for tool '", tool, "': ">> \o raw.message)
    ELSE IF Contains(raw.message, <<"not found">>) THEN ToolNotFound(tool)
    ELSE Err("SERVER_ERROR",
             IF raw.message # <<>> THEN raw.message ELSE <<"Server error">>)

\* A catch block that translates every error again, its own included.
CallToolErrorAgain(tool, raw) ==
    IF raw.num = MethodNotFound THEN ToolNotFound(tool)
    ELSE IF raw.num = InvalidParams
    THEN Err("INVALID_PARAMS",
             <<"Invalid parameters", " for tool '", tool, "': ">>
                 \o (IF raw.message # <<>> THEN raw.message ELSE <<"Invalid parameters">>))
    ELSE IF Contains(raw.message, <<"not found">>) THEN ToolNotFound(tool)
    ELSE IF Contains(raw.message, <<"Invalid parameters">>)
    THEN Err("INVALID_PARAMS",
             <<"Invalid parameters", " for tool '", tool, "': ">> \o raw.message)
    ELSE Err("SERVER_ERROR",
             IF raw.message # <<>> THEN raw.message ELSE <<"Server error">>)

\* callTool() catch block, applied to whatever the try block threw.
CallToolError(tool, raw) ==
    IF raw.num = MethodNotFound THEN ToolNotFound(tool)
    ELSE IF raw.num = InvalidParams
    THEN Err("INVALID_PARAMS",
             <<"Invalid parameters", " for tool '", tool, "': ">>
                 \o (IF raw.message # <<>> THEN raw.message ELSE <<"Invalid parameters">>))
    ELSE IF raw.str # NoCode THEN Err(raw.str, raw.message)
    ELSE IF Contains(raw.message, <<"not found">>) THEN ToolNotFound(tool)
    ELSE IF Contains(raw.message, <<"Invalid parameters">>)
    THEN Err("INVALID_PARAMS",
             <<"Invalid parameters", " for tool '", tool, "': ">> \o raw.message)
    ELSE Err("SERVER_ERROR",
             IF raw.message # <<>> THEN raw.message ELSE <<"Server error">>)

\* A callTool() that returns the first content block only.
ResultOfFirstBlock(resp) == IF resp.content = <<>> THEN <<>> ELSE <<resp.content[1]>>

\* `return response`: the payload as the server sent it.
ResultOf(resp) == resp.content

\* A listTools() that sends the request a second time when the first one failed.
ListToolsRetry(resp) ==
    /\ IF ~client.held
       THEN last' = Call("listTools", NotConnectedError, FALSE, FALSE, <<>>)
       ELSE IF ~ClientLive
       THEN last' = Call("listTools", ListToolsError(SdkNotConnected), FALSE, FALSE, <<>>)
       ELSE IF resp.kind = "throw"
       THEN last' = Call("listTools", ListToolsError(resp.raw), FALSE, TRUE, <<>>)
       ELSE last' = Call("listTools", NoError, FALSE, TRUE, ToolsOf(resp))
    /\ asked' = Ask("listTools", "", ClientLive, resp)
    /\ outbound' = IF ClientLive THEN outbound \cup {Authorization(options)} ELSE outbound
    /\ tries' = IF ~ClientLive THEN 0 ELSE IF resp.kind = "throw" THEN 2 ELSE 1
    /\ attempt' = NoAttempt
    /\ UNCHANGED <<transport, client, open, nextId, life>>

\* listTools(): the guard on this.client, then one request.
ListTools(resp) ==
    /\ IF ~client.held
       THEN last' = Call("listTools", NotConnectedError, FALSE, FALSE, <<>>)
       ELSE IF ~ClientLive
       THEN last' = Call("listTools", ListToolsError(SdkNotConnected), FALSE, FALSE, <<>>)
       ELSE IF resp.kind = "throw"
       THEN last' = Call("listTools", ListToolsError(resp.raw), FALSE, TRUE, <<>>)
       ELSE last' = Call("listTools", NoError, FALSE, TRUE, ToolsOf(resp))
    /\ asked' = Ask("listTools", "", ClientLive, resp)
    /\ outbound' = IF ClientLive THEN outbound \cup {Authorization(options)} ELSE outbound
    /\ tries' = IF ClientLive THEN 1 ELSE 0
    /\ attempt' = NoAttempt
    /\ UNCHANGED <<transport, client, open, nextId, life>>

\* A callTool() that drops the session's handles when the request fails.
CallToolDropsOnFailure(tool, resp) ==
    /\ IF ~client.held
       THEN last' = Call("callTool", NotConnectedError, FALSE, FALSE, <<>>)
       ELSE IF ~ClientLive
       THEN last' = Call("callTool", CallToolError(tool, SdkNotConnected), FALSE, FALSE, <<>>)
       ELSE IF resp.kind = "throw"
       THEN last' = Call("callTool", CallToolError(tool, resp.raw), FALSE, TRUE, <<>>)
       ELSE IF resp.isError
       THEN last' = Call("callTool", CallToolError(tool, InBandError(tool, resp.content)),
                         FALSE, TRUE, <<>>)
       ELSE last' = Call("callTool", NoError, FALSE, TRUE, ResultOf(resp))
    /\ asked' = Ask("callTool", tool, ClientLive, resp)
    /\ outbound' = IF ClientLive THEN outbound \cup {Authorization(options)} ELSE outbound
    /\ tries' = IF ClientLive THEN 1 ELSE 0
    /\ attempt' = NoAttempt
    /\ transport' = IF ClientLive /\ (resp.kind = "throw" \/ resp.isError)
                    THEN NoTransport ELSE transport
    /\ client' = IF ClientLive /\ (resp.kind = "throw" \/ resp.isError)
                 THEN NoClient ELSE client
    /\ UNCHANGED <<open, nextId, life>>

\* callTool(toolName, params): the guard on this.client, then one request.
CallTool(tool, resp) ==
    /\ IF ~client.held
       THEN last' = Call("callTool", NotConnectedError, FALSE, FALSE, <<>>)
       ELSE IF ~ClientLive
       THEN last' = Call("callTool", CallToolError(tool, SdkNotConnected), FALSE, FALSE, <<>>)
       ELSE IF resp.kind = "throw"
       THEN last' = Call("callTool", CallToolError(tool, resp.raw), FALSE, TRUE, <<>>)
       ELSE IF resp.isError
       THEN last' = Call("callTool", CallToolError(tool, InBandError(tool, resp.content)),
                         FALSE, TRUE, <<>>)
       ELSE last' = Call("callTool", NoError, FALSE, TRUE, ResultOf(resp))
    /\ asked' = Ask("callTool", tool, ClientLive, resp)
    /\ outbound' = IF ClientLive THEN outbound \cup {Authorization(options)} ELSE outbound
    /\ tries' = IF ClientLive THEN 1 ELSE 0
    /\ attempt' = NoAttempt
    /\ UNCHANGED <<transport, client, open, nextId, life>>

\* ------------------------------------------------- the methods, any order
ApiConstruct ==
    /\ mode = "api"
    /\ \E o \in SessionConfigs : Construct(o)
    /\ UNCHANGED <<mode, cliVars, teardown>>

ApiConnect ==
    /\ mode = "api" /\ sess = "live"
    /\ \E a \in ConnectAttempts : Connect(a[1], a[2])
    /\ teardown' = <<>>
    /\ UNCHANGED <<mode, sess, options, ctorError, cliVars>>

ApiListTools ==
    /\ mode = "api" /\ sess = "live"
    /\ \E resp \in Answers(ListResponses) : ListTools(resp)
    /\ teardown' = <<>>
    /\ UNCHANGED <<mode, sess, options, ctorError, cliVars>>

ApiCallTool ==
    /\ mode = "api" /\ sess = "live"
    /\ \E tool \in ToolNames, resp \in Answers(CallResponses) : CallTool(tool, resp)
    /\ teardown' = <<>>
    /\ UNCHANGED <<mode, sess, options, ctorError, cliVars>>

ApiDisconnect ==
    /\ mode = "api" /\ sess = "live"
    /\ \E outcome \in CloseOutcomes : Disconnect(outcome)
    /\ teardown' = <<"disconnect">>
    /\ UNCHANGED <<mode, sess, options, ctorError, cliVars>>

ApiDisconnectHttpSession ==
    /\ mode = "api" /\ sess = "live"
    /\ \E del \in DeleteOutcomes, outcome \in CloseOutcomes : DisconnectHttpSession(del, outcome)
    /\ UNCHANGED <<mode, sess, options, ctorError, cliVars>>

\* ------------------------------------------------------------- index.ts
\* A handleError that ends with the general code for a server error.
ExitCodeForNoServerError(err) ==
    IF err.code = "TOOL_NOT_FOUND" THEN 2
    ELSE IF err.code = "INVALID_PARAMS" THEN 3
    ELSE 1

\* utils.ts handleError: the exit code by error.code; process.exit never returns.
ExitCodeFor(err) ==
    IF err.code = "TOOL_NOT_FOUND" THEN 2
    ELSE IF err.code = "INVALID_PARAMS" THEN 3
    ELSE IF err.code = "SERVER_ERROR" THEN 4
    ELSE 1

NotExited == 0 - 1

\* Lower-casing of the message fragments whose letter case matters to a text rule.
Lower(tok) ==
    IF tok \in {"Not Found", "NOT FOUND"} THEN "not found"
    ELSE IF tok \in {"Unknown tool", "Unknown Tool"} THEN "unknown tool"
    ELSE IF tok = "Invalid parameters" THEN "invalid parameters"
    ELSE tok

\* error.message.match(/unknown tool|not found/i) && !error.code: the tool action
\* marks such an error TOOL_NOT_FOUND before it reports it.
MarkNotFound(err) ==
    IF /\ err.code = NoCode
       /\ \E i \in 1..Len(err.message) : Lower(err.message[i]) \in {"not found", "unknown tool"}
    THEN [err EXCEPT !.code = "TOOL_NOT_FOUND"]
    ELSE err

\* handleError(error, options, client?): print the error and exit; the client
\* argument is not used.
HandleError(err) ==
    /\ reported' = err
    /\ exitCode' = ExitCodeFor(err)
    /\ pc' = "exited"

\* What the command line asks for: the inspect command, or a tool call whose tool
\* name is '' when neither the argument nor --tool gives one.
CliTools == ToolNames \cup {"", "list"}
Commands == {[name |-> "inspect", tool |-> ""]} \cup {[name |-> "tool", tool |-> t] : t \in CliTools}
NoCommand == [name |-> "none", tool |-> ""]
\* Parameter parsing of the tool action: parsed, parseFields threw, or invalid JSON.
ParamsOutcomes == {"ok", "fields_error", "json_error"}
FieldsError == Err(NoCode, <<"Invalid field format">>)

\* Both actions up to `await client.connect()`: the tool-name checks and the
\* parameter parsing of the tool action, then `new MCPClient(options)`. A
\* missing tool name and invalid JSON are printed and exit directly (codes 1
\* and 3), not through handleError.
CliConstruct ==
    /\ mode = "cli" /\ pc = "start"
    /\ \E c \in Commands, p \in ParamsOutcomes, o \in SessionConfigs :
        /\ command' = c
        /\ IF c.name = "tool" /\ c.tool = ""
           THEN /\ exitCode' = 1
                /\ pc' = "exited"
                /\ UNCHANGED reported
                /\ UNCHANGED <<sessVars, issued>>
           ELSE IF c.name = "tool" /\ c.tool \in {"tools", "list", "ls"}
           THEN /\ HandleError(Err("TOOL_NOT_FOUND", <<"Unknown command: ", c.tool>>))
                /\ UNCHANGED <<sessVars, issued>>
           ELSE IF c.name = "tool" /\ p = "json_error"
           THEN /\ exitCode' = 3
                /\ pc' = "exited"
                /\ UNCHANGED reported
                /\ UNCHANGED <<sessVars, issued>>
           ELSE IF c.name = "tool" /\ p = "fields_error"
           THEN /\ HandleError(MarkNotFound(FieldsError))
                /\ UNCHANGED <<sessVars, issued>>
           ELSE /\ Construct(o)
                /\ issued' = [issued EXCEPT !.construct = @ + 1]
                /\ IF validateOptions(o) = NoError
                   THEN /\ pc' = "constructed"
                        /\ UNCHANGED <<exitCode, reported>>
                   ELSE HandleError(IF c.name = "tool"
                                    THEN MarkNotFound(validateOptions(o))
                                    ELSE validateOptions(o))
    /\ UNCHANGED <<mode, printed, opResult, opError, closeAttempted, teardown>>

\* An action that goes on to the operation when connect() has thrown.
CliConnectGoesOn ==
    /\ mode = "cli" /\ pc = "constructed"
    /\ \E a \in ConnectAttempts :
        /\ Connect(a[1], a[2])
        /\ pc' = "connected"
        /\ UNCHANGED <<exitCode, reported>>
    /\ issued' = [issued EXCEPT !.connect = @ + 1]
    /\ teardown' = <<>>
    /\ UNCHANGED <<mode, sess, options, ctorError, command, printed, opResult, opError,
                   closeAttempted>>

\* `await client.connect()` returns or throws into the action's catch block.
CliConnect ==
    /\ mode = "cli" /\ pc = "constructed"
    /\ \E a \in ConnectAttempts :
        /\ Connect(a[1], a[2])
        /\ IF a[1] = "ok"
           THEN /\ pc' = "connected"
                /\ UNCHANGED <<exitCode, reported>>
           ELSE HandleError(IF command.name = "tool"
                            THEN MarkNotFound(ConnectFailed(a[2]))
                            ELSE ConnectFailed(a[2]))
    /\ issued' = [issued EXCEPT !.connect = @ + 1]
    /\ teardown' = <<>>
    /\ UNCHANGED <<mode, sess, options, ctorError, command, printed, opResult, opError,
                   closeAttempted>>

\* The requested operation: listTools() for inspect, callTool() for a tool call.
\* On success the result is printed; on failure handleError exits the process.
CliOperate ==
    /\ mode = "cli" /\ pc = "connected"
    /\ IF command.name = "inspect"
       THEN \E resp \in Answers(ListResponses) : ListTools(resp)
       ELSE \E resp \in Answers(CallResponses) : CallTool(command.tool, resp)
    /\ IF last'.err = NoError
       THEN /\ opResult' = "ok"
            /\ printed' = TRUE
            /\ pc' = "operated"
            /\ UNCHANGED <<opError, exitCode, reported>>
       ELSE /\ opResult' = "failed"
            /\ opError' = last'.err
            /\ HandleError(IF command.name = "tool" THEN MarkNotFound(last'.err) ELSE last'.err)
            /\ UNCHANGED printed
    /\ issued' = [issued EXCEPT !.operate = @ + 1]
    /\ teardown' = <<>>
    /\ UNCHANGED <<mode, sess, options, ctorError, command, closeAttempted>>

\* `await client.disconnect()` then process.exit(0); a rejection of disconnect()
\* is caught by the action's catch block and reported like any other error.
CliDisconnect ==
    /\ mode = "cli" /\ pc = "operated"
    /\ \E outcome \in CloseOutcomes : Disconnect(outcome)
    /\ closeAttempted' = TRUE
    /\ teardown' = <<"disconnect">>
    /\ IF last'.err = NoError
       THEN /\ exitCode' = 0
            /\ pc' = "exited"
            /\ UNCHANGED reported
       ELSE HandleError(IF command.name = "tool" THEN MarkNotFound(last'.err) ELSE last'.err)
    /\ UNCHANGED <<mode, sess, options, ctorError, command, printed, opResult, opError,
                   issued>>

\* ----------------------------------- construction over all configurations
\* `new MCPClient(options)` for every configuration within the bounds, and
\* connect() on the sessions it returns.
ConfigConstruct ==
    /\ mode = "config"
    /\ \E o \in Configs : Construct(o)
    /\ UNCHANGED <<mode, cliVars, teardown>>

ConfigConnect ==
    /\ mode = "config" /\ sess = "live"
    /\ \E a \in ConnectAttempts : Connect(a[1], a[2])
    /\ teardown' = <<>>
    /\ UNCHANGED <<mode, sess, options, ctorError, cliVars>>

\* ------------------------------------- the methods around a suspended close
\* disconnect() up to its suspension point: with a transport held it calls
\* transport.close() and waits; the handles are dropped only after the wait.
\* By the time another caller runs the channel is already shut, or not yet.
DisconnectBegin(released) ==
    /\ transport # NoTransport
    /\ open' = IF released THEN open \ {transport} ELSE open
    /\ asked' = NoAsk /\ attempt' = NoAttempt /\ tries' = 0
    /\ UNCHANGED <<transport, client, nextId, outbound, last, life>>

AsyncConstruct ==
    /\ mode = "async" /\ pc = "idle"
    /\ \E o \in SessionConfigs : Construct(o)
    /\ UNCHANGED <<mode, cliVars, teardown>>

AsyncConnect ==
    /\ mode = "async" /\ pc = "idle" /\ sess = "live"
    /\ \E a \in ConnectAttempts : Connect(a[1], a[2])
    /\ teardown' = <<>>
    /\ UNCHANGED <<mode, sess, options, ctorError, cliVars>>

\* listTools() and callTool() may be called by another flow of control while a
\* disconnect() is suspended.
AsyncListTools ==
    /\ mode = "async" /\ sess = "live"
    /\ \E resp \in Answers(ListResponses) : ListTools(resp)
    /\ teardown' = <<>>
    /\ UNCHANGED <<mode, sess, options, ctorError, cliVars>>

AsyncCallTool ==
    /\ mode = "async" /\ sess = "live"
    /\ \E tool \in ToolNames, resp \in Answers(CallResponses) : CallTool(tool, resp)
    /\ teardown' = <<>>
    /\ UNCHANGED <<mode, sess, options, ctorError, cliVars>>

\* disconnect() without a transport has no suspension point.
AsyncDisconnectNow ==
    /\ mode = "async" /\ pc = "idle" /\ sess = "live"
    /\ transport = NoTransport
    /\ Disconnect("ok")
    /\ teardown' = <<"disconnect">>
    /\ UNCHANGED <<mode, sess, options, ctorError, cliVars>>

AsyncDisconnectBegin ==
    /\ mode = "async" /\ pc = "idle" /\ sess = "live"
    /\ \E released \in BOOLEAN : DisconnectBegin(released)
    /\ pc' = "closing"
    /\ teardown' = <<>>
    /\ UNCHANGED <<mode, sess, options, ctorError, command, exitCode, reported, printed,
                   opResult, opError, closeAttempted, issued>>

\* transport.close() settles and disconnect() resumes.
AsyncDisconnectEnd ==
    /\ mode = "async" /\ pc = "closing"
    /\ \E outcome \in CloseOutcomes : Disconnect(outcome)
    /\ pc' = "idle"
    /\ teardown' = <<"disconnect">>
    /\ UNCHANGED <<mode, sess, options, ctorError, command, exitCode, reported, printed,
                   opResult, opError, closeAttempted, issued>>

\* ------------------------------------------------------- specification
InitIn(modes) ==
    /\ mode \in modes
    /\ sess = "none"
    /\ options = NoOptions
    /\ ctorError = NoError
    /\ transport = NoTransport
    /\ client = NoClient
    /\ open = {}
    /\ nextId = 0
    /\ outbound = {}
    /\ last = NoCall
    /\ asked = NoAsk
    /\ attempt = NoAttempt
    /\ tries = 0
    /\ life = "unconnected"
    /\ pc = IF mode = "cli" THEN "start" ELSE "idle"
    /\ command = NoCommand
    /\ exitCode = NotExited
    /\ reported = NoError
    /\ printed = FALSE
    /\ opResult = "none"
    /\ opError = NoError
    /\ closeAttempted = FALSE
    /\ issued = [construct |-> 0, connect |-> 0, operate |-> 0]
    /\ teardown = <<>>

Init == InitIn({"api", "cli"})

Next ==
    \/ ApiConstruct
    \/ ApiConnect
    \/ ApiListTools
    \/ ApiCallTool
    \/ ApiDisconnect
    \/ ApiDisconnectHttpSession
    \/ CliConstruct
    \/ CliConnect
    \/ CliOperate
    \/ CliDisconnect

Spec == Init /\ [][Next]_vars

InitConfig == InitIn({"config"})

NextConfig ==
    \/ ConfigConstruct
    \/ ConfigConnect

ConfigSpec == InitConfig /\ [][NextConfig]_vars

InitAsync == InitIn({"async"})

NextAsync ==
    \/ AsyncConstruct
    \/ AsyncConnect
    \/ AsyncListTools
    \/ AsyncCallTool
    \/ AsyncDisconnectNow
    \/ AsyncDisconnectBegin
    \/ AsyncDisconnectEnd

AsyncSpec == InitAsync /\ [][NextAsync]_vars

\* ================================================================ claims
\* The session is connected: it holds a client whose handshake completed over
\* the transport it holds, and that transport's channel is open.
Connected == ClientLive /\ transport = client.t

\* C1: when connect() fails on a session that was never connected, the session
\* holds neither a transport nor a client afterwards, and a list_tools() or
\* call_tool() that follows fails with the not-connected error without a request
\* being sent.
C1_FailedConnectLeavesUnconnected ==
    (life = "unconnected") =>
        /\ (last.op = "connect" /\ last.err # NoError) =>
               (transport = NoTransport /\ client = NoClient)
        /\ (last.op \in {"listTools", "callTool"}) =>
               (last.err = NotConnectedError /\ ~last.sent)

\* C2: every command-line run in which connect() succeeded has called
\* disconnect() by the time the process exits, whether the operation succeeded
\* or raised.
C2_CloseAttemptedBeforeExit ==
    (mode = "cli" /\ pc = "exited" /\ life # "unconnected") => closeAttempted

\* C3: a failure of the closing disconnect() never replaces the outcome of the
\* operation: a run whose operation succeeded exits with code 0, and a run whose
\* operation failed reports the operation's error.
C3_CloseFailureNeverMasksOutcome ==
    (mode = "cli" /\ pc = "exited") =>
        /\ (opResult = "ok" => exitCode = 0)
        /\ (opResult = "failed" => reported = opError)

\* C4: disconnect() on a session that had been connected never raises: also
\* when closing the transport fails it returns normally and leaves the session
\* without transport and client.
C4_TeardownNeverPropagates ==
    (last.op = "disconnect" /\ last.closedT /\ life # "unconnected") =>
        (last.err = NoError /\ transport = NoTransport /\ client = NoClient)

\* C5: disconnect() on a session that is not connected (connect() has not
\* succeeded on it, or a disconnect() has returned since) returns normally,
\* closes no transport and leaves the session without transport and client.
C5_CloseIdempotentWhenNotConnected ==
    [][(life # "connected" /\ last'.op = "disconnect") =>
          (last'.err = NoError /\ ~last'.closedT
              /\ transport' = NoTransport /\ client' = NoClient)]_vars

\* C6: in every state other than connected (connect() has not succeeded, or a
\* disconnect() has returned since), list_tools() and call_tool() fail with the
\* not-connected error and send nothing.
C6_RequestsNeedConnected ==
    (life # "connected" /\ last.op \in {"listTools", "callTool"}) =>
        (last.err = NotConnectedError /\ ~last.sent)

Constructed == sess # "none"

\* C8: construction only validates: until connect() is called the session holds
\* no transport and no client, no transport has been created and no channel is
\* open; the constructor throws exactly for the configurations validation
\* rejects, and then there is no session on which anything was ever called.
C8_ConstructionHasNoSideEffect ==
    /\ (last.op = "none") =>
           (transport = NoTransport /\ client = NoClient /\ open = {} /\ nextId = 0)
    /\ Constructed => ((sess = "threw") <=> (ctorError # NoError))
    /\ (sess = "threw") => (last.op = "none")

\* An accepted configuration was constructed and connect() has not been called.
C8_Witness ==
    sess = "live" /\ last.op = "none" /\ options.type = "http"

\* The four validation rules, each on its own ("present" is JavaScript
\* truthiness: a string that is given and not empty).
Rule1Fails == ~(options.type \in TransportTypes)
Rule2Fails == options.type \in {"http", "https", "sse"} /\ ~Truthy(options.url)
Rule3Fails == options.type = "local" /\ ~Truthy(options.cmd)
Rule4Fails == Truthy(options.url) /\ ~validateUrl(options.url.s)

\* C9: validation applies the four rules in order and the first that fails
\* decides the error: (1) an unrecognised kind, the error naming it; (2) no url
\* for http, https or sse; (3) no command for local; (4) a url that is present,
\* for any kind, and is not an absolute URL, the error containing that url.
\* When no rule fails the constructor returns.
C9_ValidationOrder ==
    Constructed =>
        /\ Rule1Fails =>
               ctorError.message = <<"Invalid transport type: ", options.type>>
        /\ (~Rule1Fails /\ Rule2Fails) =>
               ctorError.message = <<"URL is required for ", options.type, " transport">>
        /\ (~Rule1Fails /\ ~Rule2Fails /\ Rule3Fails) =>
               ctorError.message = <<"Command is required for local transport">>
        /\ (~Rule1Fails /\ ~Rule2Fails /\ ~Rule3Fails /\ Rule4Fails) =>
               /\ ctorError.message[1] = "Invalid URL: "
               /\ Contains(ctorError.message, options.url.s)
        /\ (~Rule1Fails /\ ~Rule2Fails /\ ~Rule3Fails /\ ~Rule4Fails) =>
               (ctorError = NoError /\ sess = "live")

\* A local configuration that fails both the command rule and the URL rule.
C9_Witness ==
    Constructed /\ Rule3Fails /\ Rule4Fails
        /\ ctorError.message = <<"Command is required for local transport">>

\* C10: a local configuration whose command is missing, empty or made of
\* whitespace only is rejected at construction with the error that the
\* transport needs a command.
C10_BlankCommandRejected ==
    (Constructed /\ options.type = "local"
        /\ (~options.cmd.present \/ Trim(options.cmd.s) = <<>>)) =>
        (sess = "threw"
            /\ ctorError.message = <<"Command is required for local transport">>)

\* C11: when a bearer token is configured and the transport is http or https,
\* every request the session sends carries the header Authorization: Bearer
\* <token>; when no bearer token is configured, no request of the session
\* carries an Authorization header.
C11_BearerHeaderOnEveryRequest ==
    /\ (Truthy(options.bearerToken) /\ options.type \in {"http", "https"}) =>
           \A h \in outbound : h = <<"Bearer ">> \o options.bearerToken.s
    /\ ~Truthy(options.bearerToken) =>
           \A h \in outbound : h = NoHeader

\* The kinds of the closed taxonomy of application errors.
Taxonomy ==
    {"CONFIGURATION_ERROR", "CONNECTION_FAILED", "NOT_CONNECTED", "TOOL_NOT_FOUND",
     "INVALID_PARAMS", "SERVER_ERROR"}

\* The last call was a callTool() whose request went out on a connected session
\* and failed by a throw of the SDK / came back as a response.
CallThrew == last.op = "callTool" /\ asked.got /\ asked.resp.kind = "throw"
CallAnswered == last.op = "callTool" /\ asked.got /\ asked.resp.kind = "result"

\* message ends with detail.
EndsWith(message, detail) ==
    /\ Len(message) >= Len(detail)
    /\ SubSeq(message, Len(message) - Len(detail) + 1, Len(message)) = detail

\* C12: every failure callTool() raises on a connected session carries a kind of
\* the closed taxonomy, also when the underlying error carried a string code of
\* its own.
C12_CallToolKindInTaxonomy ==
    (last.op = "callTool" /\ asked.got /\ last.err # NoError) =>
        last.err.code \in Taxonomy

\* C13: a callTool() failure carrying the method-not-found code yields
\* TOOL_NOT_FOUND and one carrying the invalid-params code yields INVALID_PARAMS,
\* whatever its message says, and in both cases the message names the tool.
C13_ProtocolCodesFirst ==
    CallThrew =>
        /\ (asked.resp.raw.num = MethodNotFound) =>
               (last.err.code = "TOOL_NOT_FOUND" /\ Contains(last.err.message, <<asked.tool>>))
        /\ (asked.resp.raw.num = InvalidParams) =>
               (last.err.code = "INVALID_PARAMS" /\ Contains(last.err.message, <<asked.tool>>))

\* An invalid-params failure whose message contains 'not found' came out as INVALID_PARAMS.
C13_Witness ==
    /\ CallThrew
    /\ asked.resp.raw.num = InvalidParams
    /\ Contains(asked.resp.raw.message, <<"not found">>)
    /\ last.err.code = "INVALID_PARAMS"

\* The failure carries neither of the two protocol codes nor a string code.
Uncoded(raw) == raw.num \notin {MethodNotFound, InvalidParams} /\ raw.str = NoCode

LowerAll(s) == [i \in 1..Len(s) |-> Lower(s[i])]
ContainsIgnoreCase(s, t) == Contains(LowerAll(s), LowerAll(t))

\* C15: the text rules do not depend on letter case: a failure with neither
\* protocol code nor string code whose message contains 'not found' in any
\* letter case yields TOOL_NOT_FOUND, otherwise one whose message contains
\* 'Invalid parameters' in any letter case yields INVALID_PARAMS; an in-band
\* error whose text contains 'not found' in any letter case yields TOOL_NOT_FOUND.
C15_TextRulesIgnoreCase ==
    /\ (CallThrew /\ Uncoded(asked.resp.raw)) =>
           /\ ContainsIgnoreCase(asked.resp.raw.message, <<"not found">>) =>
                  last.err.code = "TOOL_NOT_FOUND"
           /\ (/\ ~ContainsIgnoreCase(asked.resp.raw.message, <<"not found">>)
               /\ ContainsIgnoreCase(asked.resp.raw.message, <<"Invalid parameters">>)) =>
                  last.err.code = "INVALID_PARAMS"
    /\ (CallAnswered /\ asked.resp.isError) =>
           (ContainsIgnoreCase(ErrorText(asked.resp.content), <<"not found">>) =>
                last.err.code = "TOOL_NOT_FOUND")

\* The failure the try block of callTool() throws for an in-band error, as the
\* in-band check builds it.
InBandKind == InBandError(asked.tool, asked.resp.content).str
InBandMessage == InBandError(asked.tool, asked.resp.content).message

\* C16: an error that already carries one of the program's own kinds (the
\* TOOL_NOT_FOUND or SERVER_ERROR built from an in-band tool error) leaves the
\* catch block with the same kind and the same message, also when its message
\* would match another rule.
C16_TranslatedOnce ==
    (CallAnswered /\ asked.resp.isError) =>
        (last.err.code = InBandKind /\ last.err.message = InBandMessage)

\* An in-band error whose text contains 'Invalid parameters' stayed a
\* SERVER_ERROR with that text.
C16_Witness ==
    /\ CallAnswered /\ asked.resp.isError
    /\ Contains(ErrorText(asked.resp.content), <<"Invalid parameters">>)
    /\ last.err = Err("SERVER_ERROR", ErrorText(asked.resp.content))

\* The last call was a listTools() whose request went out on a connected session.
ListSent == last.op = "listTools" /\ asked.got

\* C17: every failure of listTools() on a connected session has kind
\* SERVER_ERROR, whatever code or message the underlying failure carries, and
\* its message is the underlying message, or 'Server error' when there is none.
C17_ListFailuresAreServerErrors ==
    ListSent =>
        /\ (asked.resp.kind = "throw") <=> (last.err # NoError)
        /\ (last.err # NoError) =>
               /\ last.err.code = "SERVER_ERROR"
               /\ last.err.message =
                      (IF asked.resp.raw.message # <<>> THEN asked.resp.raw.message
                       ELSE <<"Server error">>)

\* A listTools() failure carrying the method-not-found code and a 'not found'
\* message came out as SERVER_ERROR.
C17_Witness ==
    /\ ListSent /\ asked.resp.kind = "throw"
    /\ asked.resp.raw.num = MethodNotFound
    /\ Contains(asked.resp.raw.message, <<"not found">>)
    /\ last.err.code = "SERVER_ERROR"

\* C18: on success listTools() returns exactly the tools the server reported,
\* in the server's order, and the empty sequence, not an error, when the server
\* reports no tools or no tools field.
C18_ListReturnsServerOrder ==
    (ListSent /\ asked.resp.kind = "result") =>
        /\ last.err = NoError
        /\ asked.resp.hasTools => last.ret = asked.resp.tools
        /\ (~asked.resp.hasTools \/ asked.resp.tools = <<>>) => last.ret = <<>>

\* The three tools of the test server came back in the server's order.
C18_Witness ==
    ListSent /\ last.err = NoError /\ last.ret = <<"echo", "add", "error">>

\* The text of the first content block of the response ('' when there is none).
FirstText == IF asked.resp.content # <<>> THEN asked.resp.content[1] ELSE <<>>

\* C19: a response flagged as an in-band tool error is never returned as a
\* result: when the text of its first content block contains 'not found' the
\* call fails with TOOL_NOT_FOUND and a message naming the requested tool,
\* otherwise with SERVER_ERROR and the reported text as message ('Unknown error'
\* when no text is reported).
C19_InBandErrorIsRaised ==
    (CallAnswered /\ asked.resp.isError) =>
        /\ last.err # NoError /\ last.ret = <<>>
        /\ IF Contains(FirstText, <<"not found">>)
           THEN /\ last.err.code = "TOOL_NOT_FOUND"
                /\ Contains(last.err.message, <<asked.tool>>)
           ELSE /\ last.err.code = "SERVER_ERROR"
                /\ last.err.message =
                       (IF FirstText # <<>> THEN FirstText ELSE <<"Unknown error">>)

\* An in-band error reporting 'Tool not found' came out as TOOL_NOT_FOUND.
C19_Witness ==
    /\ CallAnswered /\ asked.resp.isError
    /\ FirstText = <<"Tool ", "not found">>
    /\ last.err = ToolNotFound(asked.tool)

\* The tools the server has.
ExistingTools == {"echo"}
\* An existing tool raised while it ran: the server answered with an in-band error.
ToolRaised == CallAnswered /\ asked.resp.isError /\ asked.tool \in ExistingTools

\* C20 as stated: an existing tool that raises yields SERVER_ERROR with a
\* message containing the reported error text, for every error text.
C20_RaisingToolIsServerError ==
    ToolRaised =>
        (last.err.code = "SERVER_ERROR" /\ Contains(last.err.message, FirstText))

\* C20 as amended: an existing tool that raises yields SERVER_ERROR with a
\* message containing the reported error text, for every error text that does
\* not contain 'not found'; a text containing 'not found' yields TOOL_NOT_FOUND
\* with a message naming the tool.
C20_RaisingToolUnlessNotFound ==
    ToolRaised =>
        /\ ~Contains(FirstText, <<"not found">>) =>
               (last.err.code = "SERVER_ERROR" /\ Contains(last.err.message, FirstText))
        /\ Contains(FirstText, <<"not found">>) =>
               (last.err.code = "TOOL_NOT_FOUND" /\ last.err.message = ToolNotFound(asked.tool).message)

\* An existing tool raised 'boom' and the call failed with SERVER_ERROR 'boom'.
C20_Witness ==
    ToolRaised /\ FirstText = <<"boom">> /\ last.err = Err("SERVER_ERROR", <<"boom">>)

\* The last call was a callTool() whose request went out on a connected session.
CallSent == last.op = "callTool" /\ asked.got

\* C21: callTool() returns a value exactly when the server answered with a
\* response that is not flagged as an in-band error, and the value is the
\* response's payload as the server sent it: the same content blocks in the
\* same order.
C21_ReturnsPayloadUnmodified ==
    CallSent =>
        /\ (last.err = NoError) <=> (asked.resp.kind = "result" /\ ~asked.resp.isError)
        /\ (last.err = NoError) => last.ret = asked.resp.content
        /\ (last.err # NoError) => last.ret = <<>>

\* A response with two content blocks was returned with both, in order.
C21_Witness ==
    CallSent /\ last.err = NoError /\ last.ret = <<<<"Name: x">>, <<"Age: 1">>>>

\* The last call was a connect() that failed.
ConnectFailedLast == last.op = "connect" /\ last.err # NoError

\* C22: every failure of connect(), whatever the transport kind and the cause,
\* is one error whose message is 'Failed to connect: ' followed by the message
\* of the cause; connect() fails exactly when the underlying attempt did.
C22_ConnectFailuresWrapped ==
    (last.op = "connect") =>
        /\ (last.err # NoError) <=> (attempt.outcome # "ok")
        /\ (last.err # NoError) =>
               last.err.message = <<"Failed to connect: ">> \o attempt.cause

\* An https session whose handshake failed with HTTP 404 reported the wrapped cause.
C22_Witness ==
    /\ ConnectFailedLast /\ options.type = "https"
    /\ attempt.outcome = "handshake_fail"
    /\ last.err.message = <<"Failed to connect: ", "HTTP 404: ", "Not Found">>

Exited == mode = "cli" /\ pc = "exited"

\* C24: handleError always ends the process, with 2 for TOOL_NOT_FOUND, 3 for
\* INVALID_PARAMS, 4 for SERVER_ERROR and 1 for every other error; the process
\* ends with 0 only after the requested operation succeeded and its result was
\* printed, and a failed operation prints no result.
C24_ExitCodeByOutcome ==
    /\ (mode = "cli" /\ reported # NoError) =>
           /\ pc = "exited"
           /\ exitCode = (CASE reported.code = "TOOL_NOT_FOUND" -> 2
                            [] reported.code = "INVALID_PARAMS" -> 3
                            [] reported.code = "SERVER_ERROR" -> 4
                            [] OTHER -> 1)
    /\ (Exited /\ exitCode = 0) => (opResult = "ok" /\ printed /\ reported = NoError)
    /\ (mode = "cli" /\ opResult = "failed") => (~printed /\ Exited /\ exitCode # 0)

\* A tool call rejected for its parameters ended the run with code 3.
C24_Witness ==
    /\ Exited /\ command.name = "tool" /\ opResult = "failed"
    /\ reported.code = "INVALID_PARAMS" /\ exitCode = 3

\* C25: a failure of connect() is reported as a general error with exit code 1,
\* on the inspect path and on the tool path, whatever the cause says; it is
\* never reported as TOOL_NOT_FOUND, INVALID_PARAMS or SERVER_ERROR.
C25_ConnectFailureIsGeneral ==
    (Exited /\ ConnectFailedLast) =>
        /\ exitCode = 1
        /\ reported.code \notin {"TOOL_NOT_FOUND", "INVALID_PARAMS", "SERVER_ERROR"}

\* C26: nothing is retried: one connect() makes at most one connection attempt
\* (it creates at most one transport), one listTools() or callTool() sends at
\* most one request, and a command-line run whose connect() or operation failed
\* issues nothing more: it has ended.
C26_NoRetry ==
    /\ [](tries <= 1)
    /\ [][nextId' <= nextId + 1]_vars
    /\ []((mode = "cli" /\ last.op \in {"connect", "listTools", "callTool"}
              /\ last.err # NoError) => pc = "exited")

\* A request failed, and it had been sent once.
C26_Witness ==
    last.op = "listTools" /\ asked.got /\ last.err # NoError /\ tries = 1

\* C27: a command-line run constructs at most one session, calls connect() on
\* it at most once and issues the requested operation at most once, only after
\* connect() succeeded; when construction or connect() fails no operation is
\* issued.
C27_OneSessionOneOperation ==
    (mode = "cli") =>
        /\ issued.construct <= 1 /\ issued.connect <= 1 /\ issued.operate <= 1
        /\ (issued.connect = 1) => (issued.construct = 1 /\ sess = "live")
        /\ (issued.operate = 1) => (issued.connect = 1 /\ life # "unconnected")
        /\ (sess = "threw" \/ ConnectFailedLast) => issued.operate = 0

\* A run that constructed, connected, operated once each and ended.
C27_Witness ==
    /\ Exited /\ issued = [construct |-> 1, connect |-> 1, operate |-> 1]
    /\ command.name = "inspect"

\* The whitespace-delimited tokens of a command line, in order.
NonEmpty(t) == t # <<>>
Tokens(s) == SelectSeq(Split(s), NonEmpty)

\* C28: for a local configuration whose command line is not blank, the child
\* process is given the first whitespace-delimited token as command and the
\* remaining tokens, in order, as arguments, also with leading, trailing or
\* repeated blanks; no empty token is the command or an argument.
C28_CommandLineTokens ==
    (attempt.stdio /\ Trim(options.cmd.s) # <<>>) =>
        /\ attempt.command = Tokens(options.cmd.s)[1]
        /\ attempt.args = Tail(Tokens(options.cmd.s))
        /\ attempt.command # <<>>
        /\ \A i \in 1..Len(attempt.args) : attempt.args[i] # <<>>

\* The last close sent the session-termination request.
DeleteAttempted == \E i \in 1..Len(teardown) : teardown[i] \in {"DELETE ok", "DELETE failed"}

\* C29: when a command-line run closes a connected http or https session, the
\* DELETE request to the configured url is attempted as part of that close.
C29_CliCloseSendsDelete ==
    (mode = "cli" /\ closeAttempted /\ options.type \in {"http", "https"}) =>
        DeleteAttempted

\* The last call on the session was a disconnectHttpSession().
ClosedByHttpSession ==
    teardown # <<>> /\ teardown[1] = "disconnectHttpSession" /\ last.op = "disconnect"

\* C30: disconnectHttpSession() sends the DELETE request exactly when the kind
\* is http or https and a url is configured; a failure of the request is
\* swallowed (the call fails only if disconnect() itself does); and in every
\* case disconnect() is performed, after the request attempt.
C30_DeleteThenDisconnect ==
    ClosedByHttpSession =>
        /\ DeleteAttempted <=> (options.type \in {"http", "https"} /\ Truthy(options.url))
        /\ DeleteAttempted => (Len(teardown) = 3 /\ teardown[3] = "disconnect")
        /\ ~DeleteAttempted => teardown = <<"disconnectHttpSession", "disconnect">>
        /\ last.err \in {NoError, CloseFailed}
        /\ (last.err = CloseFailed) => last.closedT

\* The DELETE request of an https session failed and disconnect() closed the
\* transport and returned normally.
C30_Witness ==
    /\ teardown = <<"disconnectHttpSession", "DELETE failed", "disconnect">>
    /\ options.type = "https"
    /\ ClosedByHttpSession /\ last.closedT /\ last.err = NoError

\* C31: over any sequence of connect() and disconnect() calls the session has at
\* most one open transport, every open transport is the one the session
\* holds (none is open and unreferenced), and once a disconnect() has returned
\* normally no transport the session opened is still open.
C31_AtMostOneOpenTransport ==
    /\ Cardinality(open) <= 1
    /\ open \subseteq {transport}
    /\ (last.op = "disconnect" /\ last.err = NoError) => open = {}

\* C32: list_tools() and call_tool() never change the lifecycle of the session:
\* whether the call succeeds, fails in translation or fails the guard, the
\* transport and client handles, the open transports and the lifecycle stage
\* are the same after the call as before it.
C32_RequestsKeepLifecycle ==
    [][last'.op \in {"listTools", "callTool"} =>
          /\ transport' = transport
          /\ client' = client
          /\ open' = open
          /\ life' = life]_vars

\* A request on a connected session went out and failed, and the session is
\* still connected.
C32_Witness ==
    /\ last.op = "callTool" /\ last.sent /\ last.err.code = "SERVER_ERROR"
    /\ Connected /\ life = "connected"

\* C33: when the configuration carries a supplied transport, connect() attaches
\* to that transport whatever the transport type is: the session and its client
\* hold the supplied transport, the session has created no transport of its own
\* (no child process, no URL-based channel) and no transport type is refused.
C33_SuppliedTransportIsUsed ==
    (sess = "live" /\ options.transport /\ last.op = "connect") =>
        /\ transport = InMemoryId
        /\ client = NewClient(InMemoryId, last.err = NoError)
        /\ open \subseteq {InMemoryId}
        /\ nextId = 0
        /\ ~attempt.stdio
        /\ attempt.outcome # "unsupported"

\* A session of a URL-based type with a supplied transport has connected over
\* the supplied transport.
C33_Witness ==
    /\ options.transport /\ options.type = "http" /\ Truthy(options.url)
    /\ last.op = "connect" /\ last.err = NoError
    /\ transport = InMemoryId /\ InMemoryId \in open

\* The error of a connect() on a session of the test kind without a transport.
UnsupportedTest ==
    Err(NoCode, <<"Failed to connect: ", "Unsupported transport: ", "test">>)

\* C34 as stated: every configuration of the test kind without a supplied
\* transport passes validation, and every connect() on its session fails with
\* 'Failed to connect: Unsupported transport: test' and leaves the session
\* without transport and client.
C34_TestKindAlwaysAccepted ==
    (Constructed /\ options.type = "test" /\ ~options.transport) =>
        /\ sess = "live" /\ ctorError = NoError
        /\ (last.op = "connect") =>
               (last.err = UnsupportedTest /\ transport = NoTransport /\ client = NoClient)

\* C34 as amended: the same for the configurations of the test kind without a
\* supplied transport whose url is absent, empty or an absolute URL; with a url
\* that does not parse the constructor throws 'Invalid URL: <url>'.
C34_TestKindCannotConnect ==
    (Constructed /\ options.type = "test" /\ ~options.transport) =>
        /\ ~Rule4Fails =>
               /\ sess = "live" /\ ctorError = NoError
               /\ (last.op = "connect") =>
                      (last.err = UnsupportedTest /\ transport = NoTransport
                          /\ client = NoClient /\ open = {} /\ nextId = 0)
        /\ Rule4Fails =>
               (sess = "threw" /\ ctorError.message = <<"Invalid URL: ">> \o options.url.s)

\* connect() was called on a session of the test kind without a transport.
C34_Witness ==
    /\ options.type = "test" /\ ~options.transport /\ sess = "live"
    /\ last.op = "connect" /\ last.err = UnsupportedTest
    /\ transport = NoTransport /\ client = NoClient

\* C35: once disconnect() has begun on a connected session, a list_tools() or
\* call_tool() issued while the transport is still being closed does not pass
\* the guard: it fails with the not-connected error and sends nothing.
C35_NoRequestDuringClose ==
    (mode = "async" /\ pc = "closing" /\ client.ready /\ client.t = transport
        /\ asked.op \in {"listTools", "callTool"}) =>
        (last.err = NotConnectedError /\ ~last.sent)

====
